---- MODULE Spec2Model ----
(***************************************************************************)
(* vtop: the sampling-render loop of src/main.rs.                          *)
(*                                                                         *)
(* The model follows main() from its first statement to the value it       *)
(* returns: color_eyre::install, init_terminal, App::new, App::run (the    *)
(* loop draw / handle_crossterm_events / refresh_all / sleep), and         *)
(* restore_terminal.  The terminal's input is a FIFO of crossterm events,  *)
(* the metrics provider is a map pid -> memory that refresh_all replaces   *)
(* by an arbitrary new one, and the iteration order of that map (a         *)
(* HashMap) is chosen afresh at every render.                              *)
(***************************************************************************)
EXTENDS Integers, Sequences, FiniteSets, TLC

VARIABLES
    pc,          \* position of the single thread in main / App::run
    running,     \* App.running
    system,      \* App.system: the provider's process map, pid -> memory
    rows,        \* render's local `processes`, the rows handed to the Table
    queue,       \* events pending in the terminal, oldest first
    event,       \* the event handle_crossterm_events read in this call
    steps,       \* the steps the current iteration of the loop has begun
    iter,        \* iterations of the while loop entered so far
    result,      \* main's local `result`: what App::run returned
    exitResult,  \* what main returned to the runtime
    restores     \* what each call of restore_terminal so far returned

vars == <<pc, running, system, rows, queue, event, steps, iter, result,
          exitResult, restores>>

----------------------------------------------------------------------------
(* Bounds *)

\* The loop body is entered at most MaxIter times.
MaxIter == 3

\* At most MaxQueue events are pending in the terminal at once.
MaxQueue == 1

\* The pids and the memory readings a snapshot is built from: the three
\* processes and the three readings of the specification's example.
Pids == {1, 2, 3}
MemValues == {100, 2000, 5000}

----------------------------------------------------------------------------
(* crossterm events *)

Kinds == {"Press", "Release", "Repeat"}
Modifiers == {"NONE", "CONTROL", "ALT"}
Codes == {"Esc", "q", "Q", "c", "C", "x"}

Key(kind, mods, code) ==
    [type |-> "Key", kind |-> kind, mods |-> mods, code |-> code]

\* Every press and release, and one held key repeating.
KeyEvents ==
    {Key(k, m, c) : k \in Kinds \ {"Repeat"}, m \in Modifiers, c \in Codes}
        \cup {Key("Repeat", "NONE", "q")}
Mouse == [type |-> "Mouse", kind |-> "-", mods |-> "-", code |-> "-"]
Resize == [type |-> "Resize", kind |-> "-", mods |-> "-", code |-> "-"]
Events == KeyEvents \cup {Mouse, Resize}

\* No event has been read in the current call of handle_crossterm_events.
NoEvent == [type |-> "None", kind |-> "-", mods |-> "-", code |-> "-"]

----------------------------------------------------------------------------
(* App::quit, App::on_key_event and the match of handle_crossterm_events *)

quit == FALSE

on_key_event_NoUpperC(r, key) ==
    IF \/ key.code \in {"Esc", "q"}
       \/ (key.mods = "CONTROL" /\ key.code = "c")
    THEN quit
    ELSE r

\* match (key.modifiers, key.code): any modifiers with Esc or Char('q'),
\* or exactly CONTROL with Char('c') or Char('C'), calls quit.
on_key_event(r, key) ==
    IF \/ key.code \in {"Esc", "q"}
       \/ (key.mods = "CONTROL" /\ key.code \in {"c", "C"})
    THEN quit
    ELSE r

dispatch_AnyKind(r, ev) ==
    IF ev.type = "Key" THEN on_key_event(r, ev) ELSE r

\* match event::read()?: only Event::Key with kind Press reaches
\* on_key_event; Mouse, Resize and everything else are empty arms.
dispatch(r, ev) ==
    IF ev.type = "Key" /\ ev.kind = "Press" THEN on_key_event(r, ev) ELSE r

RECURSIVE DispatchAll(_, _)
DispatchAll(r, evs) ==
    IF evs = <<>> THEN r ELSE DispatchAll(dispatch(r, Head(evs)), Tail(evs))

----------------------------------------------------------------------------
(* The provider's snapshot and App::render's process rows *)

Snapshots == UNION {[S -> MemValues] : S \in SUBSET Pids}

EmptySnapshot == [p \in {} |-> 0]

\* The orders in which HashMap::values may yield the processes of sys.
IterationOrders(sys) ==
    LET n == Cardinality(DOMAIN sys)
    IN  {o \in [1..n -> DOMAIN sys] : \A i, j \in 1..n : o[i] = o[j] => i = j}

\* format!("{:.2} MB", memory as f64 / 1024.0), as hundredths of the unit:
\* memory / 1024 is exact in binary, and the formatter rounds the exact
\* value to two places, a tie to the even digit.
FormatMB(mem) ==
    LET q == (mem * 100) \div 1024
        r == (mem * 100) % 1024
    IN  IF r > 512 \/ (r = 512 /\ q % 2 = 1) THEN q + 1 ELSE q

\* One row of the table.  The name and cpu cells are copied from the process
\* and take no part in the order or the number of the rows.
Row(pid, mem) == [pid |-> pid, memory |-> FormatMB(mem)]

\* processes = values().map(..).collect(); rows = processes.iter().map(Row::new)
render(sys, order) == [i \in 1..Len(order) |-> Row(order[i], sys[order[i]])]

----------------------------------------------------------------------------
(* main *)

RunErrors == {"DrawErr", "PollErr", "ReadErr"}

Init ==
    /\ pc = "install"
    /\ running = FALSE
    /\ system = EmptySnapshot
    /\ rows = <<>>
    /\ queue = <<>>
    /\ event = NoEvent
    /\ steps = <<>>
    /\ iter = 0
    /\ result = "none"
    /\ exitResult = "none"
    /\ restores = <<>>

\* color_eyre::install()?
Install ==
    /\ pc = "install"
    /\ pc' = "init_terminal"
    /\ UNCHANGED <<running, system, rows, queue, event, steps, iter, result,
                   exitResult, restores>>

InstallErr ==
    /\ pc = "install"
    /\ pc' = "exit"
    /\ exitResult' = "InstallErr"
    /\ UNCHANGED <<running, system, rows, queue, event, steps, iter, result,
                   restores>>

\* let mut terminal = init_terminal()?
InitTerminal ==
    /\ pc = "init_terminal"
    /\ pc' = "new"
    /\ UNCHANGED <<running, system, rows, queue, event, steps, iter, result,
                   exitResult, restores>>

InitTerminalErr ==
    /\ pc = "init_terminal"
    /\ pc' = "exit"
    /\ exitResult' = "InitErr"
    /\ UNCHANGED <<running, system, rows, queue, event, steps, iter, result,
                   restores>>

\* App::new(): System::new_all, refresh_all, running: true
AppNew ==
    /\ pc = "new"
    /\ running' = TRUE
    /\ system' \in Snapshots
    /\ pc' = "run_entry"
    /\ UNCHANGED <<rows, queue, event, steps, iter, result, exitResult, restores>>

ReturnFromRun_Try(res) ==
    /\ result' = res
    /\ IF res = "Ok"
       THEN pc' = "restore" /\ exitResult' = exitResult
       ELSE pc' = "exit" /\ exitResult' = res

\* let result = App::new().run(&mut terminal): run's value, Ok or the error
\* a `?` returned, is bound and main goes on to restore_terminal.
ReturnFromRun(res) ==
    /\ result' = res
    /\ pc' = "restore"
    /\ exitResult' = exitResult

MainResult_DropResult(restoreOk, runResult) ==
    IF restoreOk THEN "Ok" ELSE "RestoreErr"

MainResult_IgnoreRestore(restoreOk, runResult) == runResult

\* restore_terminal(&mut terminal)?; result
MainResult(restoreOk, runResult) ==
    IF restoreOk THEN runResult ELSE "RestoreErr"

\* restore_terminal: terminal.show_cursor()? succeeds
Restore ==
    /\ pc = "restore"
    /\ restores' = Append(restores, "Ok")
    /\ exitResult' = MainResult(TRUE, result)
    /\ pc' = "exit"
    /\ UNCHANGED <<running, system, rows, queue, event, steps, iter, result>>

\* restore_terminal: terminal.show_cursor()? fails
RestoreErr ==
    /\ pc = "restore"
    /\ restores' = Append(restores, "Err")
    /\ exitResult' = MainResult(FALSE, result)
    /\ pc' = "exit"
    /\ UNCHANGED <<running, system, rows, queue, event, steps, iter, result>>

----------------------------------------------------------------------------
(* App::run *)

\* self.running = true
RunEntry ==
    /\ pc = "run_entry"
    /\ running' = TRUE
    /\ pc' = "loop_test"
    /\ UNCHANGED <<system, rows, queue, event, steps, iter, result, exitResult,
                   restores>>

LoopEnter_Unconditional ==
    /\ pc = "loop_test"
    /\ iter < MaxIter
    /\ iter' = iter + 1
    /\ steps' = <<>>
    /\ pc' = "draw"
    /\ UNCHANGED <<running, system, rows, queue, event, result, exitResult,
                   restores>>

\* while self.running: the flag is true, the body is entered
LoopEnter ==
    /\ pc = "loop_test"
    /\ running
    /\ iter < MaxIter
    /\ iter' = iter + 1
    /\ steps' = <<>>
    /\ pc' = "draw"
    /\ UNCHANGED <<running, system, rows, queue, event, result, exitResult,
                   restores>>

\* while self.running: the flag is false, run returns Ok(())
LoopExit ==
    /\ pc = "loop_test"
    /\ ~running
    /\ ReturnFromRun("Ok")
    /\ UNCHANGED <<running, system, rows, queue, event, steps, iter, restores>>

\* terminal.draw(|frame| self.render(frame)): the closure renders the
\* current snapshot, in whatever order the process map iterates
DrawRender ==
    /\ pc = "draw"
    /\ \E order \in IterationOrders(system) : rows' = render(system, order)
    /\ steps' = Append(steps, "draw")
    /\ pc' = "drawn"
    /\ UNCHANGED <<running, system, queue, event, iter, result, exitResult,
                   restores>>

DrawOk_SkipInput ==
    /\ pc = "drawn"
    /\ rows' = <<>>
    /\ pc' = "refresh"
    /\ UNCHANGED <<running, system, queue, event, steps, iter, result,
                   exitResult, restores>>

\* terminal.draw(..)? is Ok; render's locals are gone
DrawOk ==
    /\ pc = "drawn"
    /\ rows' = <<>>
    /\ pc' = "input"
    /\ UNCHANGED <<running, system, queue, event, steps, iter, result,
                   exitResult, restores>>

\* terminal.draw(..)? is Err: run returns it
DrawErr ==
    /\ pc = "drawn"
    /\ rows' = <<>>
    /\ ReturnFromRun("DrawErr")
    /\ UNCHANGED <<running, system, queue, event, steps, iter, restores>>

\* An event reaches the terminal.  Only poll and read look at the pending
\* events, so an arrival at any other moment is the same as one just
\* before the next poll.
Arrive ==
    /\ pc = "input"
    /\ Len(queue) < MaxQueue
    /\ \E e \in Events : queue' = Append(queue, e)
    /\ UNCHANGED <<pc, running, system, rows, event, steps, iter, result,
                   exitResult, restores>>

\* event::poll(100 ms)? is Ok(false): nothing arrived, the call returns Ok
PollEmpty ==
    /\ pc = "input"
    /\ queue = <<>>
    /\ steps' = Append(steps, "input")
    /\ pc' = "refresh"
    /\ UNCHANGED <<running, system, rows, queue, event, iter, result,
                   exitResult, restores>>

\* event::poll(100 ms)? is Ok(true): an event is pending
PollReady ==
    /\ pc = "input"
    /\ queue # <<>>
    /\ steps' = Append(steps, "input")
    /\ pc' = "read"
    /\ UNCHANGED <<running, system, rows, queue, event, iter, result,
                   exitResult, restores>>

\* event::poll(100 ms)? is Err: handle_crossterm_events and run return it
PollErr ==
    /\ pc = "input"
    /\ steps' = Append(steps, "input")
    /\ ReturnFromRun("PollErr")
    /\ UNCHANGED <<running, system, rows, queue, event, iter, restores>>

ReadOk_Drain ==
    /\ pc = "read"
    /\ event' = queue[Len(queue)]
    /\ queue' = <<>>
    /\ running' = DispatchAll(running, queue)
    /\ pc' = "refresh"
    /\ UNCHANGED <<system, rows, steps, iter, result, exitResult, restores>>

\* event::read()? takes the oldest pending event and the match dispatches it
ReadOk ==
    /\ pc = "read"
    /\ event' = Head(queue)
    /\ queue' = Tail(queue)
    /\ running' = dispatch(running, Head(queue))
    /\ pc' = "refresh"
    /\ UNCHANGED <<system, rows, steps, iter, result, exitResult, restores>>

\* event::read()? is Err: handle_crossterm_events and run return it
ReadErr ==
    /\ pc = "read"
    /\ ReturnFromRun("ReadErr")
    /\ UNCHANGED <<running, system, rows, queue, event, steps, iter, restores>>

\* self.system.refresh_all(): the provider takes a new snapshot
Refresh ==
    /\ pc = "refresh"
    /\ system' \in Snapshots
    /\ event' = NoEvent
    /\ steps' = Append(steps, "refresh")
    /\ pc' = "sleep"
    /\ UNCHANGED <<running, rows, queue, iter, result, exitResult, restores>>

Sleep_ToRunEntry ==
    /\ pc = "sleep"
    /\ steps' = Append(steps, "sleep")
    /\ pc' = "run_entry"
    /\ UNCHANGED <<running, system, rows, queue, event, iter, result,
                   exitResult, restores>>

\* std::thread::sleep(1 s), then back to the loop's test
Sleep ==
    /\ pc = "sleep"
    /\ steps' = Append(steps, "sleep")
    /\ pc' = "loop_test"
    /\ UNCHANGED <<running, system, rows, queue, event, iter, result,
                   exitResult, restores>>

----------------------------------------------------------------------------
(* The program, with events arriving at any time and every fallible call   *)
(* free to fail.                                                           *)

Next ==
    \/ Install \/ InstallErr
    \/ InitTerminal \/ InitTerminalErr
    \/ AppNew
    \/ RunEntry
    \/ LoopEnter \/ LoopExit
    \/ DrawRender \/ DrawOk \/ DrawErr
    \/ Arrive
    \/ PollEmpty \/ PollReady \/ PollErr
    \/ ReadOk \/ ReadErr
    \/ Refresh
    \/ Sleep
    \/ Restore \/ RestoreErr

Spec == Init /\ [][Next]_vars

----------------------------------------------------------------------------
(* The program with its input typed ahead and no failing call: k events    *)
(* that do not quit, then one key press that does, are pending when main   *)
(* starts.  The single thread always takes its next step: poll waits at    *)
(* most 100 ms and sleep one second.                                       *)

Fillers ==
    {Mouse, Resize, Key("Release", "NONE", "q"), Key("Press", "NONE", "x")}

QuitKeys ==
    {Key("Press", "NONE", "Esc"), Key("Press", "ALT", "q"),
     Key("Press", "NONE", "q"), Key("Press", "CONTROL", "c"),
     Key("Press", "CONTROL", "C")}

TypedAhead ==
    UNION {{Append(f, k) : f \in [1..n -> Fillers], k \in QuitKeys} : n \in 0..(MaxIter - 1)}

InitQ ==
    /\ pc = "install"
    /\ running = FALSE
    /\ system = EmptySnapshot
    /\ rows = <<>>
    /\ queue \in TypedAhead
    /\ event = NoEvent
    /\ steps = <<>>
    /\ iter = 0
    /\ result = "none"
    /\ exitResult = "none"
    /\ restores = <<>>

NextQ ==
    \/ Install
    \/ InitTerminal
    \/ AppNew
    \/ RunEntry
    \/ LoopEnter \/ LoopExit
    \/ DrawRender \/ DrawOk
    \/ PollReady
    \/ ReadOk
    \/ Refresh
    \/ Sleep
    \/ Restore

SpecQ == InitQ /\ [][NextQ]_vars /\ WF_vars(NextQ)

----------------------------------------------------------------------------
(* Vocabulary of the properties *)

StepOrder == <<"draw", "input", "refresh", "sleep">>

\* App::new has run: the App and its running flag exist.
Constructed == pc \notin {"install", "init_terminal", "new"}

\* init_terminal returned Ok.
TerminalInitialised ==
    pc \notin {"install", "init_terminal"} /\ exitResult \notin {"InstallErr", "InitErr"}

\* handle_crossterm_events has just returned Ok to run.
InputReturned == pc = "refresh"

\* The key presses the specification lists as quit signals.
ListedQuitPresses ==
    {Key("Press", "NONE", "Esc"), Key("Press", "NONE", "q"),
     Key("Press", "NONE", "Q"), Key("Press", "CONTROL", "c"),
     Key("Press", "CONTROL", "C")}

\* The key presses that call quit: Esc or q under any modifiers, c or C
\* under exactly CONTROL.
QuitPresses ==
    {e \in KeyEvents :
        /\ e.kind = "Press"
        /\ \/ e.code \in {"Esc", "q"}
           \/ (e.mods = "CONTROL" /\ e.code \in {"c", "C"})}

----------------------------------------------------------------------------
(* C1 *)

\* C1: every iteration of App::run goes draw, input, refresh, sleep in that
\* order: at each position of the loop the steps begun so far are exactly
\* the steps before it, and an iteration that reaches the loop's test again,
\* or after which run returned Ok, has gone through all four.
C1_IterationOrder ==
    /\ \E n \in 0..4 : steps = SubSeq(StepOrder, 1, n)
    /\ pc = "draw" => steps = <<>>
    /\ pc \in {"drawn", "input"} => steps = <<"draw">>
    /\ pc \in {"read", "refresh"} => steps = <<"draw", "input">>
    /\ pc = "sleep" => steps = <<"draw", "input", "refresh">>
    /\ (pc = "loop_test" /\ iter > 0) => steps = StepOrder
    /\ result = "Ok" => steps = StepOrder

\* Two iterations have run through all four steps.
C1_Witness == pc = "loop_test" /\ iter = 2 /\ steps = StepOrder /\ running

----------------------------------------------------------------------------
(* C2 *)

\* C2 as stated: when handle_crossterm_events returns after reading a press
\* of plain Esc, plain q, plain Q, Ctrl+c or Ctrl+C, running is false.
C2_AsStated == (InputReturned /\ event \in ListedQuitPresses) => ~running

\* C2 as amended: when handle_crossterm_events returns after reading a press
\* of plain Esc, plain q, Ctrl+c or Ctrl+C, running is false.
C2_QuitKeys ==
    (InputReturned /\ event \in ListedQuitPresses \ {Key("Press", "NONE", "Q")})
        => ~running

\* A Ctrl+C press has been read and handled.
C2_Witness ==
    InputReturned /\ event = Key("Press", "CONTROL", "C") /\ ~running

----------------------------------------------------------------------------
(* C3 *)

\* C3 as stated: an event that is not a press of plain Esc, plain q or Q,
\* Ctrl+c or Ctrl+C leaves running as it was (true, inside the loop) and the
\* call returns without an error.
C3_AsStated ==
    (InputReturned /\ event # NoEvent /\ event \notin ListedQuitPresses)
        => (running /\ result = "none")

\* C3 as amended: an event that is not a press of Esc or q (under any
\* modifiers) nor of c or C under exactly CONTROL leaves running as it was
\* and the call returns without an error.
C3_OtherEventsIgnored ==
    (InputReturned /\ event # NoEvent /\ event \notin QuitPresses)
        => (running /\ result = "none")

\* A release of q has been read and handled, and the loop goes on.
C3_Witness ==
    InputReturned /\ event = Key("Release", "NONE", "q") /\ running

----------------------------------------------------------------------------
(* C4 *)

\* C4: the rows render hands to the table are one per process of the
\* snapshot, in order of memory, largest first.
C4_RowsSortedByMemory ==
    pc = "drawn" =>
        /\ Len(rows) = Cardinality(DOMAIN system)
        /\ \A i \in 1..(Len(rows) - 1) :
               system[rows[i].pid] >= system[rows[i + 1].pid]

----------------------------------------------------------------------------
(* C5 *)

\* C5: once running is false inside the loop, the thread is only ever at
\* refresh, at sleep, at the loop's test or past the loop: no draw, no input
\* step and no further iteration follow, and when run has returned the
\* iteration that saw the quit key has gone through refresh and sleep.
C5_NoDrawAfterQuit ==
    (iter > 0 /\ ~running) =>
        /\ pc \in {"refresh", "sleep", "loop_test", "restore", "exit"}
        /\ pc \in {"loop_test", "restore", "exit"} => steps = StepOrder
        /\ pc \in {"restore", "exit"} => result = "Ok"

\* run has returned after a quit key, its last iteration complete.
C5_Witness ==
    pc = "restore" /\ ~running /\ result = "Ok" /\ steps = StepOrder /\ iter = 2

----------------------------------------------------------------------------
(* C6 *)

----------------------------------------------------------------------------
(* C7 *)

\* C7 as stated: an error of draw, poll or read ends run at once (no
\* refresh, no sleep, no further iteration) and the process ends with that
\* error; a run ended by a quit key returns Ok and the process exits 0.
C7_AsStated ==
    /\ result = "DrawErr" => (pc \in {"restore", "exit"} /\ steps = <<"draw">>)
    /\ result \in {"PollErr", "ReadErr"} =>
           (pc \in {"restore", "exit"} /\ steps = <<"draw", "input">>)
    /\ (pc = "exit" /\ result \in RunErrors) => exitResult = result
    /\ (pc = "exit" /\ result = "Ok") => exitResult = "Ok"

\* C7 as amended: an error of draw, poll or read ends run at once (no
\* refresh, no sleep, no further iteration) and the process ends with an
\* error: that one, unless restore_terminal failed, and then
\* restore_terminal's; a run ended by a quit key returns Ok and the process
\* exits 0 unless restore_terminal failed.
C7_ErrorsAreFatal ==
    /\ result = "DrawErr" => (pc \in {"restore", "exit"} /\ steps = <<"draw">>)
    /\ result \in {"PollErr", "ReadErr"} =>
           (pc \in {"restore", "exit"} /\ steps = <<"draw", "input">>)
    /\ (pc = "exit" /\ result \in RunErrors) =>
           exitResult = (IF restores = <<"Err">> THEN "RestoreErr" ELSE result)
    /\ (pc = "exit" /\ result = "Ok") =>
           /\ ~running
           /\ exitResult = (IF restores = <<"Err">> THEN "RestoreErr" ELSE "Ok")

\* A read error in the second iteration has become the process's result.
C7_Witness ==
    /\ pc = "exit" /\ result = "ReadErr" /\ exitResult = "ReadErr"
    /\ iter = 2 /\ steps = <<"draw", "input">>

----------------------------------------------------------------------------
(* C8 *)

\* C8: restore_terminal is called exactly once on every path on which
\* init_terminal succeeded, after run has returned and before main returns;
\* never while the loop runs.
C8_RestoreOnce ==
    /\ Len(restores) <= 1
    /\ (pc = "exit" /\ TerminalInitialised) => Len(restores) = 1
    /\ Len(restores) = 1 => (pc = "exit" /\ result # "none")
    /\ pc # "exit" => (restores = <<>> /\ exitResult = "none")

\* The terminal has been restored after a draw error.
C8_Witness == pc = "exit" /\ Len(restores) = 1 /\ result = "DrawErr"

----------------------------------------------------------------------------
(* C9 *)

\* C9 as stated: whenever run returned an error, the process's result is
\* that same error, also when restore_terminal failed.
C9_AsStated ==
    (pc = "exit" /\ result \in RunErrors) => exitResult = result

\* C9 as amended: whenever run returned an error, the process's result is
\* that same error when restore_terminal succeeded, and restore_terminal's
\* error, in place of run's, when it failed.
C9_ReportedError ==
    (pc = "exit" /\ result \in RunErrors) =>
        /\ restores = <<"Ok">> => exitResult = result
        /\ restores = <<"Err">> => exitResult = "RestoreErr"
        /\ restores \in {<<"Ok">>, <<"Err">>}

\* run's error has been replaced by restore_terminal's.
C9_Witness ==
    /\ pc = "exit" /\ result = "PollErr" /\ restores = <<"Err">>
    /\ exitResult = "RestoreErr"

----------------------------------------------------------------------------
(* C10 *)

\* Events read so far plus events pending, counting one read for every
\* iteration whose input step is over.
EventBudget ==
    IF pc \in {"draw", "drawn", "input", "read"}
    THEN iter - 1 + Len(queue)
    ELSE iter + Len(queue)

\* C10: each iteration takes one pending event and reads only when one is
\* pending: the budget starts as the number of events typed ahead, k + 1,
\* and never changes.  So with k events that do not quit ahead of a quit
\* key press, running is false only when k + 1 iterations have been entered,
\* it is still true after the input step of every earlier iteration, and
\* run eventually returns Ok.
C10_OneEventPerIteration ==
    /\ EventBudget = Len(queue)
    /\ [][EventBudget' = EventBudget]_vars
    /\ [](pc = "read" => queue # <<>>)
    /\ []((Constructed /\ ~running) => iter = EventBudget)
    /\ []((pc \in {"refresh", "sleep", "loop_test"} /\ iter = EventBudget) => ~running)
    /\ <>(result = "Ok" /\ exitResult = "Ok")

\* Two events that do not quit were ahead of the quit key, and running
\* became false in the third iteration.
C10_Witness ==
    /\ InputReturned /\ iter = 3 /\ ~running /\ queue = <<>>
    /\ event \in QuitKeys

====
